---- MODULE Spec2Model ----
(***************************************************************************)
(* A model of src/index.js: an Express server over three Mongoose          *)
(* collections (users, products, orders), JWT authentication for the order *)
(* routes and image files on disk.                                         *)
(*                                                                         *)
(* Every route handler is an async function: it suspends at each database  *)
(* call.  A handler with a single database call is one action.  A handler  *)
(* with a read followed by a write (register and the three updates)        *)
(* occupies a request slot between the two and takes one action per        *)
(* database call, so that other requests run between its read and its      *)
(* write.  The synchronous code between two awaits belongs to the action   *)
(* of the call before it.                                                  *)
(***************************************************************************)
EXTENDS Integers, Sequences, FiniteSets, TLC

VARIABLES
    users,      \* the User collection: a set of documents
    products,   \* the Product collection
    orders,     \* the Order collection
    files,      \* the image files on disk (public/user and public/img)
    nextId,     \* per collection, the next ObjectId the driver generates
    nextFile,   \* the next file name multer generates (Date.now() + ext)
    now,        \* the clock, in ticks of 30 minutes
    held,       \* the tokens clients hold, each with the login that gave it
    reqs,       \* the requests between their read and their write, by slot
    resp,       \* the last response sent
    owner       \* for each stored order, the identity whose login created it

vars == <<users, products, orders, files, nextId, nextFile, now, held, reqs,
          resp, owner>>

----------------------------------------------------------------------------
(* Bounds of the model *)

MaxUsers == 2
MaxProducts == 2
MaxOrders == 2
MaxFiles == 2
MaxTime == 3
MaxTokens == 1

\* expiresIn: "1h", in ticks of 30 minutes
ExpiresIn == 2

Slots == {"r1", "r2"}
Before(a, b) == a = "r1" /\ b = "r2"

(* Values the clients send *)

Undefined == "undefined"
Null == <<>>
BadId == <<>>

Usernames == {"alice", "bob"}
Emails == {"a@x.com", "b@x.com"}

----------------------------------------------------------------------------
(* JavaScript and library helpers *)

\* JS truthiness of a body field that is a string or absent
Truthy(v) == v \notin {Undefined, ""}

\* a || b
Or(a, b) == IF Truthy(a) THEN a ELSE b

\* bcrypt.hash(password, 10); the per-call salt is left out
hashPassword(p) == <<"bcrypt", p>>

\* bcrypt.compare(password, hash)
bcryptCompare(p, h) == h = <<"bcrypt", p>>

\* A path parameter is a string; Mongoose casts it to an ObjectId and throws
\* a CastError for a string that is none.  <<n>> is the n-th ObjectId.
IsObjectId(id) == id # BadId

\* mongoose `required: true` on a String path: absent and "" are rejected
RequiredOk(v) == Truthy(v)

\* The paths Mongoose has marked modified on a document: those whose value
\* differs from the loaded one; document.save() writes $set of these
Modified(loaded, doc) ==
    LET changed == {f \in DOMAIN doc : doc[f] # loaded[f]}
    IN  [f \in changed |-> doc[f]]

\* updateOne({ _id }, { $set: set }) on the stored document
ApplySet(stored, set) ==
    [f \in DOMAIN stored |-> IF f \in DOMAIN set THEN set[f] ELSE stored[f]]

Idle == [route |-> "idle", pc |-> "idle"]
NoResp == [route |-> "none", status |-> 0]

Free(s) == reqs[s] = Idle

\* Requests are served by the first free slot (the slots are interchangeable)
Takes(s) == Free(s) /\ \A q \in Slots : Free(q) => ~Before(q, s)

InFlight(route) == {s \in Slots : reqs[s].route = route}

\* multer's diskStorage writes the uploaded file before the handler runs
UploadOk(hasFile) == hasFile => nextFile <= MaxFiles
Uploaded(hasFile) == IF hasFile THEN <<nextFile>> ELSE Null
Upload(hasFile) ==
    /\ files' = IF hasFile THEN files \cup {nextFile} ELSE files
    /\ nextFile' = IF hasFile THEN nextFile + 1 ELSE nextFile

\* fs.unlink(path): the file, if there is one, is removed
Unlink(f) == files' = files \ {f[i] : i \in DOMAIN f}

----------------------------------------------------------------------------
(* User schema, lines 34-39: username and email carry `unique: true`,      *)
(* which Mongoose builds as two unique indexes; a write that would give    *)
(* two documents the same key is rejected with E11000.                     *)

\* The schema without `unique: true`: no index, every write is accepted
UniqueIndexOkNoIndex(doc, others) == TRUE

UniqueIndexOk(doc, others) ==
    \A u \in others : u.username # doc.username /\ u.email # doc.email

\* required: username, email, password
UserValid(doc) ==
    RequiredOk(doc.username) /\ RequiredOk(doc.email) /\ doc.password # Null

(* POST /api/users/register *)

StartRegister(s, username, email, password, hasFile) ==
    /\ Free(s)
    /\ nextId.User + Cardinality(InFlight("register")) <= MaxUsers
    /\ UploadOk(hasFile)
    /\ Upload(hasFile)
    /\ reqs' = [reqs EXCEPT ![s] =
                    [route |-> "register", pc |-> "findOne",
                     username |-> username, email |-> email,
                     password |-> password, file |-> Uploaded(hasFile)]]
    /\ UNCHANGED <<users, products, orders, nextId, now, held, resp, owner>>

\* The response of a register request
Registered(r, status) ==
    [route |-> "POST /api/users/register", status |-> status,
     username |-> r.username, email |-> r.email]

\* User.findOne({ $or: [{ username }, { email }] }): 400 when a document
\* matches; otherwise hashPassword, which throws without a password, and the
\* call of newUser.save()
RegisterFindOne(s) ==
    LET r == reqs[s]
        existingUser == \E u \in users :
                            u.username = r.username \/ u.email = r.email
    IN  /\ r.route = "register" /\ r.pc = "findOne"
        /\ IF existingUser \/ r.password = Undefined
           THEN /\ resp' = Registered(r, IF existingUser THEN 400 ELSE 500)
                /\ reqs' = [reqs EXCEPT ![s] = Idle]
           ELSE /\ reqs' = [reqs EXCEPT ![s] = [r EXCEPT !.pc = "save"]]
                /\ UNCHANGED resp
        /\ UNCHANGED <<users, products, orders, files, nextId, nextFile, now,
                       held, owner>>

\* newUser.save(): 201, or 500 on a validation error or E11000
RegisterSave(s) ==
    LET r == reqs[s]
        newUser == [id |-> nextId.User, username |-> r.username,
                    email |-> r.email, password |-> hashPassword(r.password),
                    profileImage |-> r.file]
        ok == UserValid(newUser) /\ UniqueIndexOk(newUser, users)
    IN  /\ r.route = "register" /\ r.pc = "save"
        /\ users' = IF ok THEN users \cup {newUser} ELSE users
        /\ nextId' = IF ok THEN [nextId EXCEPT !.User = @ + 1] ELSE nextId
        /\ resp' = Registered(r, IF ok THEN 201 ELSE 500)
        /\ reqs' = [reqs EXCEPT ![s] = Idle]
        /\ UNCHANGED <<products, orders, files, nextFile, now, held, owner>>

(* PUT /api/users/:_id *)

StartUpdateUser(s, id, username, email, password, hasFile) ==
    /\ Free(s)
    /\ UploadOk(hasFile)
    /\ Upload(hasFile)
    /\ reqs' = [reqs EXCEPT ![s] =
                    [route |-> "updateUser", pc |-> "findById", id |-> id,
                     username |-> username, email |-> email,
                     password |-> password, file |-> Uploaded(hasFile)]]
    /\ UNCHANGED <<users, products, orders, nextId, now, held, resp, owner>>

\* The merge of lines 121-136 on the document findById returned
MergeUser(u, r) ==
    [u EXCEPT !.username = Or(r.username, u.username),
              !.email = Or(r.email, u.email),
              !.password = IF Truthy(r.password)
                           THEN hashPassword(r.password) ELSE u.password,
              !.profileImage = IF r.file # Null THEN r.file ELSE u.profileImage]

\* The file lines 128-134 hand to fs.unlink, if any
UserUnlink(u, r) ==
    IF r.file # Null /\ u.profileImage # Null THEN u.profileImage ELSE Null

\* The response of an update request: its status, the file it unlinked
Updated(route, r, status, unlinked) ==
    [route |-> route, status |-> status, id |-> r.id, unlinked |-> unlinked]

\* User.findById(_id): 500 on a CastError, 404 when no document has the id;
\* otherwise the merge, fs.unlink of the old image and the call of
\* user.save(), whose write is UpdateUserSave
UpdateUserFind(s) ==
    LET r == reqs[s]
        found == {u \in users : <<u.id>> = r.id}
    IN  /\ r.route = "updateUser" /\ r.pc = "findById"
        /\ IF found = {}
           THEN /\ resp' = Updated("PUT /api/users/:_id", r,
                                   IF IsObjectId(r.id) THEN 404 ELSE 500, Null)
                /\ reqs' = [reqs EXCEPT ![s] = Idle]
                /\ UNCHANGED files
           ELSE LET u == CHOOSE u \in found : TRUE
                IN  /\ reqs' = [reqs EXCEPT ![s] =
                                    [route |-> "updateUser", pc |-> "save",
                                     id |-> r.id,
                                     set |-> Modified(u, MergeUser(u, r)),
                                     unlinked |-> UserUnlink(u, r)]]
                    /\ Unlink(UserUnlink(u, r))
                    /\ UNCHANGED resp
        /\ UNCHANGED <<users, products, orders, nextId, nextFile, now, held, owner>>

\* user.save(): DocumentNotFoundError when the document is gone, E11000 on
\* a unique index, otherwise the write; every error is answered 500
UpdateUserSave(s) ==
    LET r == reqs[s]
        found == {u \in users : <<u.id>> = r.id}
        ok == \E u \in found :
                  /\ UserValid(ApplySet(u, r.set))
                  /\ UniqueIndexOk(ApplySet(u, r.set), users \ {u})
    IN  /\ r.route = "updateUser" /\ r.pc = "save"
        /\ users' = IF ok
                    THEN (users \ found) \cup {ApplySet(u, r.set) : u \in found}
                    ELSE users
        /\ resp' = Updated("PUT /api/users/:_id", r,
                           IF ok THEN 200 ELSE 500, r.unlinked)
        /\ reqs' = [reqs EXCEPT ![s] = Idle]
        /\ UNCHANGED <<products, orders, files, nextId, nextFile, now, held, owner>>

(* DELETE /api/users/:id : one call, User.findByIdAndDelete(id) *)

\* The handler without its `if (!result)` test: 200 whether or not a
\* document was removed
DeletedWithoutCheck(route, id, n) ==
    [route |-> route, id |-> id,
     status |-> IF ~IsObjectId(id) THEN 500 ELSE 200]

\* The response of a delete request for `id` that removed n documents: 500
\* on a CastError (the catch), 404 when findByIdAndDelete returned null
Deleted(route, id, n) ==
    [route |-> route, id |-> id,
     status |-> IF ~IsObjectId(id) THEN 500 ELSE IF n = 0 THEN 404 ELSE 200]

DeleteUser(id) ==
    LET found == {u \in users : <<u.id>> = id}
    IN  /\ users' = users \ found
        /\ resp' = Deleted("DELETE /api/users/:id", id, Cardinality(found))
        /\ UNCHANGED <<products, orders, files, nextId, nextFile, now, held,
                       reqs, owner>>

----------------------------------------------------------------------------
(* Body values that may be numbers: a JSON body carries a number or a      *)
(* string, a multipart body carries strings only                           *)

Absent == [undefined |-> TRUE]
Num(n) == [number |-> n]
Str(s) == [string |-> s]

\* JS truthiness: undefined, 0 and "" are falsy
JsTruthy(v) == v # Absent /\ v # Num(0) /\ v # Str("")

\* The strings that read as numbers, with their values
Numerals == [s \in {"0", "10"} |-> IF s = "0" THEN 0 ELSE 10]

\* Mongoose's cast of a value to a Number path: a number is kept, a numeric
\* string is converted, anything else is a CastError
CastsToNumber(v) ==
    \/ "number" \in DOMAIN v
    \/ "string" \in DOMAIN v /\ v.string \in DOMAIN Numerals

ToNumber(v) ==
    IF "number" \in DOMAIN v THEN v.number ELSE Numerals[v.string]

\* `required: true` on a Number path: undefined and "" cast to null
RequiredNumberOk(v) == v \notin {Absent, Str("")} /\ CastsToNumber(v)

----------------------------------------------------------------------------
(* Product schema, lines 192-198: name, price, category and description    *)
(* are required; no unique index                                           *)

(* POST /api/products : one call, newProduct.save() *)

CreateProduct(name, price, category, description, hasFile) ==
    LET ok == /\ RequiredOk(name) /\ RequiredOk(category)
              /\ RequiredOk(description) /\ RequiredNumberOk(price)
        newProduct == [id |-> nextId.Product, name |-> name,
                       price |-> ToNumber(price), category |-> category,
                       description |-> description,
                       image |-> Uploaded(hasFile)]
    IN  /\ nextId.Product <= MaxProducts
        /\ UploadOk(hasFile)
        /\ Upload(hasFile)
        /\ products' = IF ok THEN products \cup {newProduct} ELSE products
        /\ nextId' = IF ok THEN [nextId EXCEPT !.Product = @ + 1] ELSE nextId
        /\ resp' = [route |-> "POST /api/products",
                    status |-> IF ok THEN 201 ELSE 400]
        /\ UNCHANGED <<users, orders, now, held, reqs, owner>>

(* PUT /api/products/:_id *)

StartUpdateProduct(s, id, name, price, category, description, hasFile) ==
    /\ Free(s)
    /\ UploadOk(hasFile)
    /\ Upload(hasFile)
    /\ reqs' = [reqs EXCEPT ![s] =
                    [route |-> "updateProduct", pc |-> "findById", id |-> id,
                     name |-> name, price |-> price, category |-> category,
                     description |-> description, file |-> Uploaded(hasFile)]]
    /\ UNCHANGED <<users, products, orders, nextId, now, held, resp, owner>>

\* product.price = price || product.price, cast by the Number path; a value
\* that does not cast leaves the path unchanged and fails validation
MergePrice(price, old) ==
    IF JsTruthy(price) /\ CastsToNumber(price) THEN ToNumber(price) ELSE old

\* The merge of lines 267-280 on the document findById returned
MergeProduct(d, r) ==
    [d EXCEPT !.name = Or(r.name, d.name),
              !.price = MergePrice(r.price, d.price),
              !.category = Or(r.category, d.category),
              !.description = Or(r.description, d.description),
              !.image = IF r.file # Null THEN r.file ELSE d.image]

\* The CastError the merge leaves on the document, reported by save()
ProductInvalid(r) == JsTruthy(r.price) /\ ~CastsToNumber(r.price)

\* The file lines 272-278 hand to fs.unlink, if any
ProductUnlink(d, r) ==
    IF r.file # Null /\ d.image # Null THEN d.image ELSE Null

\* Product.findById(_id): 400 on a CastError (line 285), 404 when no
\* document has the id; otherwise the merge, fs.unlink of the old image and
\* the call of product.save(), whose write is UpdateProductSave
UpdateProductFind(s) ==
    LET r == reqs[s]
        found == {d \in products : <<d.id>> = r.id}
    IN  /\ r.route = "updateProduct" /\ r.pc = "findById"
        /\ IF found = {}
           THEN /\ resp' = Updated("PUT /api/products/:_id", r,
                                   IF IsObjectId(r.id) THEN 404 ELSE 400, Null)
                /\ reqs' = [reqs EXCEPT ![s] = Idle]
                /\ UNCHANGED files
           ELSE LET d == CHOOSE d \in found : TRUE
                IN  /\ reqs' = [reqs EXCEPT ![s] =
                                    [r EXCEPT !.pc = "save"] @@
                                    [set |-> Modified(d, MergeProduct(d, r)),
                                     invalid |-> ProductInvalid(r),
                                     unlinked |-> ProductUnlink(d, r)]]
                    /\ Unlink(ProductUnlink(d, r))
                    /\ UNCHANGED resp
        /\ UNCHANGED <<users, products, orders, nextId, nextFile, now, held, owner>>

\* product.save(): ValidationError on a failed cast, DocumentNotFoundError
\* when the document is gone, otherwise the write; every error is answered
\* 400
UpdateProductSave(s) ==
    LET r == reqs[s]
        found == {d \in products : <<d.id>> = r.id}
        ok == found # {} /\ ~r.invalid
    IN  /\ r.route = "updateProduct" /\ r.pc = "save"
        /\ products' = IF ok
                       THEN (products \ found)
                            \cup {ApplySet(d, r.set) : d \in found}
                       ELSE products
        /\ resp' = Updated("PUT /api/products/:_id", r,
                           IF ok THEN 200 ELSE 400, r.unlinked)
        /\ reqs' = [reqs EXCEPT ![s] = Idle]
        /\ UNCHANGED <<users, orders, files, nextId, nextFile, now, held, owner>>

(* DELETE /api/products/:id : one call, Product.findByIdAndDelete(id) *)

DeleteProduct(id) ==
    LET found == {d \in products : <<d.id>> = id}
    IN  /\ products' = products \ found
        /\ resp' = Deleted("DELETE /api/products/:id", id, Cardinality(found))
        /\ UNCHANGED <<users, orders, files, nextId, nextFile, now, held,
                       reqs, owner>>

----------------------------------------------------------------------------
(* Tokens.  A JWT is its payload and a signature; only generateToken signs *)
(* with JWT_SECRET, so a token a client made up carries a bad signature.   *)

generateToken(user) ==
    [jwt |-> [id |-> user.id, username |-> user.username,
              exp |-> now + ExpiresIn],
     sig |-> "good"]

\* jwt.verify with the expiry test off by one: a token is accepted at exp
VerifiesAtExpiry(token) ==
    /\ "jwt" \in DOMAIN token
    /\ token.sig = "good"
    /\ now <= token.jwt.exp

\* jwt.verify(token, JWT_SECRET): the payload, or an error for a string that
\* is no JWT, a bad signature, or a clock at or past exp
Verifies(token) ==
    /\ "jwt" \in DOMAIN token
    /\ token.sig = "good"
    /\ now < token.jwt.exp

\* An Authorization header is its parts between single spaces; NoHeader is
\* a request without the header
Word(s) == [text |-> s]
NoHeader == <<>>

\* req.headers["authorization"]?.split(" ")[1]
HeaderToken(header) == IF Len(header) >= 2 THEN header[2] ELSE Word(Undefined)

\* `!token`: no header, no second part, or an empty second part
NoToken(token) == token \in {Word(Undefined), Word("")}

\* The middleware that lets a request through whenever a token is present
authenticateTokenUnverified(header) ==
    LET token == HeaderToken(header)
    IN  IF NoToken(token) THEN [status |-> 401]
        ELSE IF "jwt" \notin DOMAIN token THEN [status |-> 403]
        ELSE [status |-> 0, user |-> token.jwt]

\* `status` of 0 stands for next(): the handler runs with req.user = user
authenticateToken(header) ==
    LET token == HeaderToken(header)
    IN  IF NoToken(token) THEN [status |-> 401]
        ELSE IF ~Verifies(token) THEN [status |-> 403]
        ELSE [status |-> 0, user |-> token.jwt]

\* res.sendStatus(401) or res.sendStatus(403)
Rejected(route, header) ==
    [route |-> route, header |-> header,
     status |-> authenticateToken(header).status, body |-> {}]

(* POST /api/users/login : one call, User.findOne({ email }) *)

Login(email, password) ==
    LET found == {u \in users : u.email = email}
        ok == \E u \in found : bcryptCompare(password, u.password)
    IN  /\ IF ok
           THEN LET u == CHOOSE u \in found : TRUE
                    grant == [token |-> generateToken(u),
                              user |-> [id |-> u.id, username |-> u.username],
                              at |-> now]
                IN  /\ Cardinality(held \cup {grant}) <= MaxTokens
                    /\ held' = held \cup {grant}
           ELSE held' = held
        /\ resp' = [route |-> "POST /api/users/login", email |-> email,
                    status |-> IF ok THEN 200 ELSE 400]
        /\ UNCHANGED <<users, products, orders, files, nextId, nextFile, now,
                       reqs, owner>>

\* A client throws a token away
Discard(g) ==
    /\ g \in held
    /\ held' = held \ {g}
    /\ UNCHANGED <<users, products, orders, files, nextId, nextFile, now,
                   reqs, resp, owner>>

Tick ==
    /\ now < MaxTime
    /\ now' = now + 1
    /\ UNCHANGED <<users, products, orders, files, nextId, nextFile, held,
                   reqs, resp, owner>>

----------------------------------------------------------------------------
(* Order schema, lines 305-311 *)

StatusEnum == {"pending", "completed", "canceled"}

\* The identity whose login gave the token of a header, for `owner`
Identity(header) ==
    LET gs == {g \in held : g.token = HeaderToken(header)}
    IN  IF gs = {} THEN 0 ELSE (CHOOSE g \in gs : TRUE).user.id

\* userId taken from the request body when it carries one
OrderUserIdFromBody(user, bodyUserId) ==
    IF bodyUserId # Null THEN bodyUserId[1] ELSE user.id

\* userId: req.user.id (line 321); the body's userId is not read
OrderUserId(user, bodyUserId) == user.id

(* POST /api/orders : authenticateToken, then one call, newOrder.save() *)

CreateOrder(header, productId, quantity, bodyUserId) ==
    LET auth == authenticateToken(header)
        ok == IsObjectId(productId) /\ RequiredNumberOk(quantity)
        newOrder == [id |-> nextId.Order, productId |-> productId[1],
                     userId |-> OrderUserId(auth.user, bodyUserId),
                     quantity |-> ToNumber(quantity), status |-> "pending",
                     createdAt |-> now]
    IN  /\ nextId.Order <= MaxOrders
        /\ IF auth.status # 0
           THEN /\ resp' = Rejected("POST /api/orders", header)
                /\ UNCHANGED <<orders, nextId, owner>>
           ELSE IF ~ok
           THEN /\ resp' = [route |-> "POST /api/orders", header |-> header,
                            status |-> 400, body |-> {}]
                /\ UNCHANGED <<orders, nextId, owner>>
           ELSE /\ orders' = orders \cup {newOrder}
                /\ nextId' = [nextId EXCEPT !.Order = @ + 1]
                /\ owner' = (nextId.Order :> Identity(header)) @@ owner
                /\ resp' = [route |-> "POST /api/orders", header |-> header,
                            status |-> 201, body |-> {newOrder}]
        /\ UNCHANGED <<users, products, files, nextFile, now, held, reqs>>

\* .populate("productId"): the product document, or null when none has the id
Populate(o) ==
    LET found == {d \in products : d.id = o.productId}
    IN  [o EXCEPT !.productId = IF found = {} THEN Null
                                ELSE <<CHOOSE d \in found : TRUE>>]

\* Order.find({}) : the filter dropped
FindOrdersAll(user) == orders

\* Order.find({ userId: req.user.id })
FindOrders(user) == {o \in orders : o.userId = user.id}

(* GET /api/orders *)

ListOrders(header) ==
    LET auth == authenticateToken(header)
    IN  /\ resp' = IF auth.status # 0 THEN Rejected("GET /api/orders", header)
                   ELSE [route |-> "GET /api/orders", header |-> header,
                         status |-> 200,
                         body |-> {Populate(o) : o \in FindOrders(auth.user)}]
        /\ UNCHANGED <<users, products, orders, files, nextId, nextFile, now,
                       held, reqs, owner>>

(* GET /api/orders/:id *)

GetOrder(header, id) ==
    LET auth == authenticateToken(header)
        found == {o \in orders : <<o.id>> = id}
    IN  /\ resp' = IF auth.status # 0
                   THEN Rejected("GET /api/orders/:id", header)
                   ELSE [route |-> "GET /api/orders/:id", header |-> header,
                         status |-> IF ~IsObjectId(id) THEN 500
                                    ELSE IF found = {} THEN 404 ELSE 200,
                         body |-> {Populate(o) : o \in found}]
        /\ UNCHANGED <<users, products, orders, files, nextId, nextFile, now,
                       held, reqs, owner>>

(* PUT /api/orders/:id *)

\* authenticateToken, then the call of Order.findById(req.params.id)
StartUpdateOrder(s, header, id, quantity, status) ==
    LET auth == authenticateToken(header)
    IN  /\ Free(s)
        /\ IF auth.status # 0
           THEN /\ resp' = Rejected("PUT /api/orders/:id", header)
                /\ UNCHANGED reqs
           ELSE /\ reqs' = [reqs EXCEPT ![s] =
                                [route |-> "updateOrder", pc |-> "findById",
                                 header |-> header, id |-> id,
                                 quantity |-> quantity, newStatus |-> status]]
                /\ UNCHANGED resp
        /\ UNCHANGED <<users, products, orders, files, nextId, nextFile, now,
                       held, owner>>

\* Lines 362-363 on the document findById returned
MergeOrder(o, r) ==
    [o EXCEPT !.quantity = IF JsTruthy(r.quantity) /\ CastsToNumber(r.quantity)
                           THEN ToNumber(r.quantity) ELSE @,
              !.status = IF Truthy(r.newStatus) THEN r.newStatus ELSE @]

\* What save() will refuse: a quantity that does not cast, a status outside
\* the enum
OrderInvalid(r) ==
    \/ JsTruthy(r.quantity) /\ ~CastsToNumber(r.quantity)
    \/ Truthy(r.newStatus) /\ r.newStatus \notin StatusEnum

OrderUpdated(r, status) ==
    [route |-> "PUT /api/orders/:id", id |-> r.id, status |-> status]

\* Order.findById(id): 400 on a CastError (line 368), 404 when no document
\* has the id; otherwise lines 362-363 and the call of order.save()
UpdateOrderFind(s) ==
    LET r == reqs[s]
        found == {o \in orders : <<o.id>> = r.id}
    IN  /\ r.route = "updateOrder" /\ r.pc = "findById"
        /\ IF found = {}
           THEN /\ resp' = OrderUpdated(r, IF IsObjectId(r.id) THEN 404 ELSE 400)
                /\ reqs' = [reqs EXCEPT ![s] = Idle]
           ELSE LET o == CHOOSE o \in found : TRUE
                IN  /\ reqs' = [reqs EXCEPT ![s] =
                                    [route |-> "updateOrder", pc |-> "save",
                                     id |-> r.id, quantity |-> r.quantity,
                                     newStatus |-> r.newStatus,
                                     set |-> Modified(o, MergeOrder(o, r)),
                                     invalid |-> OrderInvalid(r)]]
                    /\ UNCHANGED resp
        /\ UNCHANGED <<users, products, orders, files, nextId, nextFile, now,
                       held, owner>>

\* order.save(): ValidationError, DocumentNotFoundError, or the write;
\* every error is answered 400
UpdateOrderSave(s) ==
    LET r == reqs[s]
        found == {o \in orders : <<o.id>> = r.id}
        ok == found # {} /\ ~r.invalid
    IN  /\ r.route = "updateOrder" /\ r.pc = "save"
        /\ orders' = IF ok
                     THEN (orders \ found) \cup {ApplySet(o, r.set) : o \in found}
                     ELSE orders
        /\ resp' = OrderUpdated(r, IF ok THEN 200 ELSE 400)
        /\ reqs' = [reqs EXCEPT ![s] = Idle]
        /\ UNCHANGED <<users, products, files, nextId, nextFile, now, held, owner>>

(* DELETE /api/orders/:id : authenticateToken, then one call,              *)
(* Order.findByIdAndDelete(req.params.id)                                  *)

DeleteOrder(header, id) ==
    LET auth == authenticateToken(header)
        found == {o \in orders : <<o.id>> = id}
    IN  /\ IF auth.status # 0
           THEN /\ resp' = Rejected("DELETE /api/orders/:id", header)
                /\ UNCHANGED <<orders, owner>>
           ELSE /\ orders' = orders \ found
                /\ owner' = [n \in DOMAIN owner \ {o.id : o \in found} |-> owner[n]]
                /\ resp' = Deleted("DELETE /api/orders/:id", id, Cardinality(found))
                           @@ [header |-> header, body |-> {}]
        /\ UNCHANGED <<users, products, files, nextId, nextFile, now, held, reqs>>

----------------------------------------------------------------------------
(* The requests clients send *)

\* Path parameters: the ids of stored documents, an ObjectId no document
\* has, and a string that is no ObjectId
StoredUserIds == {<<u.id>> : u \in users}
UserIds == StoredUserIds \cup {<<nextId.User>>, BadId}
StoredProductIds == {<<d.id>> : d \in products}
ProductIds == StoredProductIds \cup {<<nextId.Product>>, BadId}
StoredOrderIds == {<<o.id>> : o \in orders}
OrderIds == StoredOrderIds \cup {<<nextId.Order>>, BadId}

HeldTokens == {g.token : g \in held}

\* A token with its signature broken
Tampered(token) == [token EXCEPT !.sig = "bad"]

Bearer(token) == <<Word("Bearer"), token>>

\* Headers that carry a token a login gave, valid or expired
HeldHeaders == {Bearer(tk) : tk \in HeldTokens}

\* Headers without a token, and headers whose token never verifies
NoTokenHeaders == {NoHeader, <<Word("Bearer")>>, <<Word("Bearer"), Word("")>>}
BadTokenHeaders ==
    {Bearer(Word("garbage"))} \cup {Bearer(Tampered(tk)) : tk \in HeldTokens}

Headers == HeldHeaders \cup NoTokenHeaders \cup BadTokenHeaders

Accounts == {<<"alice", "a@x.com">>, <<"bob", "b@x.com">>}

Init ==
    /\ users = {}
    /\ products = {}
    /\ orders = {}
    /\ files = {}
    /\ nextId = [User |-> 1, Product |-> 1, Order |-> 1]
    /\ nextFile = 1
    /\ now = 0
    /\ held = {}
    /\ reqs = [s \in Slots |-> Idle]
    /\ resp = NoResp
    /\ owner = <<>>

(* The user store under concurrent register, update and delete requests *)
NextUsers ==
    \/ \E s \in Slots, u \in Usernames, e \in Emails :
            Takes(s) /\ StartRegister(s, u, e, "pw1", FALSE)
    \/ \E s \in Slots : RegisterFindOne(s)
    \/ \E s \in Slots : RegisterSave(s)
    \/ \E s \in Slots, id \in StoredUserIds, u \in Usernames \cup {Undefined},
          e \in Emails \cup {Undefined} :
            Takes(s) /\ StartUpdateUser(s, id, u, e, Undefined, FALSE)
    \/ \E s \in Slots : UpdateUserFind(s)
    \/ \E s \in Slots : UpdateUserSave(s)
    \/ \E id \in StoredUserIds : DeleteUser(id)

SpecUsers == Init /\ [][NextUsers]_vars

(* Registration alone: two requests at a time, with or without a password *)
NextRegister ==
    \/ \E s \in Slots, u \in Usernames \cup {"carol"}, e \in Emails,
          p \in {"pw1", "pw2"} :
            Takes(s) /\ StartRegister(s, u, e, p, FALSE)
    \/ \E s \in Slots : RegisterFindOne(s)
    \/ \E s \in Slots : RegisterSave(s)

SpecRegister == Init /\ [][NextRegister]_vars

(* The catalog: products are created, updated and deleted; one update is  *)
(* in flight at a time, with creates and deletes between its read and its *)
(* write                                                                  *)
NameInputs == {Undefined, "", "cup"}
PriceInputs == {Absent, Num(0), Num(20), Str("0"), Str("abc")}
CategoryInputs == {Undefined, ""}
DescriptionInputs == {Undefined}

NextProducts ==
    \/ CreateProduct("mug", Num(10), "home", "plain", FALSE)
    \/ \E id \in ProductIds, n \in NameInputs, p \in PriceInputs,
          c \in CategoryInputs, d \in DescriptionInputs :
            StartUpdateProduct("r1", id, n, p, c, d, FALSE)
    \/ UpdateProductFind("r1")
    \/ UpdateProductSave("r1")
    \/ \E id \in StoredProductIds : DeleteProduct(id)

SpecProducts == Init /\ [][NextProducts]_vars

(* Image files: users and products are created with or without an image, *)
(* and updated with a new image                                          *)
NextImages ==
    \/ \E a \in Accounts, f \in BOOLEAN :
            StartRegister("r1", a[1], a[2], "pw1", f)
    \/ RegisterFindOne("r1")
    \/ RegisterSave("r1")
    \/ \E id \in UserIds, u \in {Undefined, "bob"}, f \in BOOLEAN :
            StartUpdateUser("r1", id, u, Undefined, Undefined, f)
    \/ UpdateUserFind("r1")
    \/ UpdateUserSave("r1")
    \/ \E f \in BOOLEAN : CreateProduct("mug", Num(10), "home", "plain", f)
    \/ \E id \in ProductIds, p \in {Absent, Num(20), Str("abc")}, f \in BOOLEAN :
            StartUpdateProduct("r1", id, Undefined, p, Undefined, Undefined, f)
    \/ UpdateProductFind("r1")
    \/ UpdateProductSave("r1")

SpecImages == Init /\ [][NextImages]_vars

(* Tokens: a login gives a token, time passes, the user behind the token *)
(* is updated or deleted, and the token is presented                     *)
NextTokens ==
    \/ StartRegister("r1", "alice", "a@x.com", "pw1", FALSE)
    \/ RegisterFindOne("r1")
    \/ RegisterSave("r1")
    \/ \E id \in StoredUserIds, u \in {Undefined, "bob"}, p \in {Undefined, "pw2"} :
            StartUpdateUser("r1", id, u, Undefined, p, FALSE)
    \/ UpdateUserFind("r1")
    \/ UpdateUserSave("r1")
    \/ \E id \in StoredUserIds : DeleteUser(id)
    \/ \E p \in {"pw1", "pw2"} : Login("a@x.com", p)
    \/ \E g \in held : Discard(g)
    \/ Tick
    \/ \E h \in HeldHeaders : ListOrders(h)

SpecTokens == Init /\ [][NextTokens]_vars

(* The gate of the order routes: every kind of Authorization header on   *)
(* each of the five routes, over a store that holds orders               *)
NextGate ==
    \/ StartRegister("r1", "alice", "a@x.com", "pw1", FALSE)
    \/ RegisterFindOne("r1")
    \/ RegisterSave("r1")
    \/ Login("a@x.com", "pw1")
    \/ Tick
    \/ \E h \in Headers : CreateOrder(h, <<1>>, Num(1), Null)
    \/ \E h \in Headers : ListOrders(h)
    \/ \E h \in Headers, id \in StoredOrderIds : GetOrder(h, id)
    \/ \E h \in Headers, id \in StoredOrderIds :
            StartUpdateOrder("r1", h, id, Absent, "completed")
    \/ UpdateOrderFind("r1")
    \/ UpdateOrderSave("r1")
    \/ \E h \in Headers, id \in StoredOrderIds : DeleteOrder(h, id)

SpecGate == Init /\ [][NextGate]_vars

(* The order ledger: orders are created with and without a userId in the *)
(* body, then updated, while time passes and the user and the products   *)
(* they refer to are updated and deleted                                 *)
NextLedger ==
    \/ StartRegister("r1", "alice", "a@x.com", "pw1", FALSE)
    \/ RegisterFindOne("r1")
    \/ RegisterSave("r1")
    \/ \E id \in StoredUserIds :
            StartUpdateUser("r1", id, "carol", Undefined, Undefined, FALSE)
    \/ UpdateUserFind("r1")
    \/ UpdateUserSave("r1")
    \/ \E id \in StoredUserIds : DeleteUser(id)
    \/ Login("a@x.com", "pw1")
    \/ Tick
    \/ CreateProduct("mug", Num(10), "home", "plain", FALSE)
    \/ \E id \in StoredProductIds : DeleteProduct(id)
    \/ \E h \in HeldHeaders, pid \in StoredProductIds, u \in {Null, <<2>>} :
            CreateOrder(h, pid, Num(1), u)
    \/ \E h \in HeldHeaders, id \in StoredOrderIds :
            StartUpdateOrder("r1", h, id, Num(2), "completed")
    \/ UpdateOrderFind("r1")
    \/ UpdateOrderSave("r1")

SpecLedger == Init /\ [][NextLedger]_vars

(* Listing: two accounts create, update, delete and list orders, each    *)
(* with its own token; products are deleted under the orders             *)
NextListing ==
    \/ \E a \in Accounts : StartRegister("r1", a[1], a[2], "pw1", FALSE)
    \/ RegisterFindOne("r1")
    \/ RegisterSave("r1")
    \/ \E a \in Accounts : Login(a[2], "pw1")
    \/ \E g \in held : Discard(g)
    \/ CreateProduct("mug", Num(10), "home", "plain", FALSE)
    \/ \E id \in StoredProductIds : DeleteProduct(id)
    \/ \E h \in HeldHeaders, pid \in StoredProductIds :
            CreateOrder(h, pid, Num(1), Null)
    \/ \E h \in HeldHeaders : ListOrders(h)
    \/ \E h \in HeldHeaders, id \in StoredOrderIds :
            StartUpdateOrder("r1", h, id, Num(2), Undefined)
    \/ UpdateOrderFind("r1")
    \/ UpdateOrderSave("r1")
    \/ \E h \in HeldHeaders, id \in StoredOrderIds : DeleteOrder(h, id)

SpecListing == Init /\ [][NextListing]_vars

(* Order updates: every combination of a quantity and a status, supplied *)
(* or not, on stored and unknown ids                                     *)
QuantityInputs == {Absent, Num(0), Num(2), Str("abc")}
StatusInputs == {Undefined, "", "completed", "shipped"}

NextOrders ==
    \/ StartRegister("r1", "alice", "a@x.com", "pw1", FALSE)
    \/ RegisterFindOne("r1")
    \/ RegisterSave("r1")
    \/ Login("a@x.com", "pw1")
    \/ \E h \in HeldHeaders : CreateOrder(h, <<1>>, Num(1), Null)
    \/ \E h \in HeldHeaders, id \in OrderIds : GetOrder(h, id)
    \/ \E h \in HeldHeaders, id \in OrderIds, q \in QuantityInputs,
          st \in StatusInputs :
            StartUpdateOrder("r1", h, id, q, st)
    \/ UpdateOrderFind("r1")
    \/ UpdateOrderSave("r1")
    \/ \E h \in HeldHeaders, id \in StoredOrderIds : DeleteOrder(h, id)

SpecOrders == Init /\ [][NextOrders]_vars

(* Deletes: each of the three delete routes asked with the id of a       *)
(* stored record, an id no record has and a malformed id, over stores    *)
(* whose orders refer to users and products                              *)
NextDelete ==
    \/ \E a \in Accounts : StartRegister("r1", a[1], a[2], "pw1", FALSE)
    \/ RegisterFindOne("r1")
    \/ RegisterSave("r1")
    \/ \E a \in Accounts : Login(a[2], "pw1")
    \/ \E g \in held : Discard(g)
    \/ CreateProduct("mug", Num(10), "home", "plain", FALSE)
    \/ \E h \in HeldHeaders, pid \in StoredProductIds :
            CreateOrder(h, pid, Num(1), Null)
    \/ \E id \in UserIds : DeleteUser(id)
    \/ \E id \in ProductIds : DeleteProduct(id)
    \/ \E h \in HeldHeaders, id \in OrderIds : DeleteOrder(h, id)

SpecDelete == Init /\ [][NextDelete]_vars

----------------------------------------------------------------------------
(* C1: in every reachable state no two stored users share a username and  *)
(* no two share an email, whatever the interleaving of the database calls *)
(* of register, update-user and delete-user requests.                     *)
C1_UniqueUsers ==
    \A u, v \in users :
        (u.username = v.username \/ u.email = v.email) => u = v

\* A register whose existence check passed and whose save the unique index
\* rejected, because another request wrote the same key in between
C1_Witness ==
    /\ resp.route = "POST /api/users/register"
    /\ resp.status = 500
    /\ \E u \in users : u.email = resp.email \/ u.username = resp.username

----------------------------------------------------------------------------
(* C2: of two register requests that carry the same email, overlapping or *)
(* not, one is answered 201 and the other 400, never 500: a register      *)
(* whose email a stored user holds has been answered 201 or 400.          *)
C2_Original ==
    (/\ resp.route = "POST /api/users/register"
     /\ \E u \in users : u.email = resp.email)
        => resp.status \in {201, 400}

----------------------------------------------------------------------------
(* C3: on each of the five order routes a request without a token is      *)
(* answered 401 and a request whose token is malformed, badly signed or   *)
(* expired is answered 403; in both cases the handler does not run: the   *)
(* order store is unchanged, no order data is returned and no update is   *)
(* started.  Only a request with a valid token gets past the gate.        *)
C3_OrderRoutes ==
    {"POST /api/orders", "GET /api/orders", "GET /api/orders/:id",
     "PUT /api/orders/:id", "DELETE /api/orders/:id"}

\* The header carries a token that a login gave and that has not expired
C3_Valid(header) ==
    /\ Len(header) >= 2
    /\ \E g \in held : g.token = header[2] /\ now < g.at + ExpiresIn

\* The header carries no token at all
C3_Missing(header) == Len(header) < 2 \/ header[2] = Word("")

C3_Gate ==
    [][/\ (/\ resp' # resp
           /\ resp'.route \in C3_OrderRoutes
           /\ "header" \in DOMAIN resp')
          => IF C3_Valid(resp'.header)
             THEN resp'.status \notin {401, 403}
             ELSE /\ resp'.status = IF C3_Missing(resp'.header) THEN 401 ELSE 403
                  /\ resp'.body = {}
                  /\ orders' = orders
                  /\ reqs' = reqs
       /\ \A s \in Slots :
            (reqs[s] = Idle /\ reqs'[s].route = "updateOrder")
                => C3_Valid(reqs'[s].header)]_vars

\* A delete presenting an expired token of a real login was answered 403
\* and the orders are still stored
C3_Witness ==
    /\ resp.route = "DELETE /api/orders/:id"
    /\ resp.status = 403
    /\ HeaderToken(resp.header) \in HeldTokens
    /\ orders # {}

----------------------------------------------------------------------------
(* C4: the user reference of a stored order is the id in the token that   *)
(* authenticated its create request, whatever userId the body carried,    *)
(* and no later request changes an order's user reference or its creation *)
(* timestamp.                                                             *)
C4_UserRef ==
    [][/\ \A o \in orders' :
            (\A p \in orders : p.id # o.id)
                => /\ resp'.route = "POST /api/orders"
                   /\ o.userId = HeaderToken(resp'.header).jwt.id
                   /\ o.userId = owner'[o.id]
                   /\ o.createdAt = now
       /\ \A p \in orders, o \in orders' :
            p.id = o.id => o.userId = p.userId /\ o.createdAt = p.createdAt]_vars

\* An order created earlier by user 1 has been updated, its user has been
\* deleted and so has its product; it still refers to user 1
C4_Witness ==
    \E o \in orders :
        /\ o.userId = 1 /\ o.status = "completed" /\ o.createdAt < now
        /\ \A u \in users : u.id # 1
        /\ \A d \in products : d.id # o.productId

----------------------------------------------------------------------------
(* C5: listing orders as identity U returns exactly the stored orders     *)
(* whose user reference is U's id: every order U created that has not     *)
(* been deleted, and no order of another identity.                        *)
C5_Caller(header) ==
    (CHOOSE g \in held : g.token = HeaderToken(header)).user.id

C5_ListExact ==
    [][(/\ resp' # resp
        /\ resp'.route = "GET /api/orders"
        /\ resp'.status = 200)
          => LET U == C5_Caller(resp'.header)
                 listed == {o.id : o \in resp'.body}
             IN  /\ listed = {o.id : o \in {p \in orders : p.userId = U}}
                 /\ \A n \in DOMAIN owner : owner[n] = U <=> n \in listed
                 /\ \A o \in resp'.body : \E p \in orders :
                        /\ p.id = o.id /\ p.userId = o.userId
                        /\ p.quantity = o.quantity /\ p.status = o.status
                        /\ p.createdAt = o.createdAt]_vars

\* Two identities each hold an order; the list answered to the second
\* holds its order only
C5_Witness ==
    /\ resp.route = "GET /api/orders"
    /\ resp.status = 200
    /\ Cardinality(resp.body) = 1
    /\ \E o, p \in orders : o.userId # p.userId
    /\ \A o \in resp.body : o.userId = HeaderToken(resp.header).jwt.id

----------------------------------------------------------------------------
(* C6: a product update that is answered 200 has set every field the      *)
(* request supplied, a price of 0 and an empty string included, to the    *)
(* supplied value.                                                        *)
C6_SaveStep(s) ==
    /\ reqs[s].route = "updateProduct" /\ reqs[s].pc = "save"
    /\ reqs'[s] = Idle

C6_Stated(d, r) ==
    /\ r.name # Undefined => d.name = r.name
    /\ r.category # Undefined => d.category = r.category
    /\ r.description # Undefined => d.description = r.description
    /\ (r.price # Absent /\ CastsToNumber(r.price)) => d.price = ToNumber(r.price)

C6_Original ==
    [][\A s \in Slots : (C6_SaveStep(s) /\ resp'.status = 200) =>
          \A d \in products' : <<d.id>> = reqs[s].id => C6_Stated(d, reqs[s])]_vars

----------------------------------------------------------------------------
(* C7: a token a login gave for identity U passes the gate, yielding U's  *)
(* id and the username it was given for, at every moment before its       *)
(* expiry, whatever has happened to U's record; from its expiry on it is  *)
(* answered 403, never 401.                                               *)
C7_TokenLifetime ==
    \A g \in held :
        LET a == authenticateToken(Bearer(g.token))
        IN  IF now < g.at + ExpiresIn
            THEN /\ a.status = 0
                 /\ a.user.id = g.user.id
                 /\ a.user.username = g.user.username
            ELSE a.status = 403

\* The user was deleted after the login; the token, not yet expired, was
\* presented later and the request was served
C7_Witness ==
    /\ users = {}
    /\ resp.route = "GET /api/orders"
    /\ resp.status = 200
    /\ \E g \in held :
        /\ g.token = HeaderToken(resp.header)
        /\ g.at < now /\ now < g.at + ExpiresIn

----------------------------------------------------------------------------
(* C8, as amended: a delete request for a well-formed id that resolves to *)
(* no stored record is answered 404, one for a malformed id is answered   *)
(* 500, and both leave the three stores unchanged; a delete request for   *)
(* an id that resolves is answered 200 and removes exactly that record    *)
(* and nothing else: no order that refers to a deleted user or product is *)
(* removed.                                                               *)
C8_DeleteStep ==
    /\ resp' # resp
    /\ resp'.route \in {"DELETE /api/users/:id", "DELETE /api/products/:id",
                        "DELETE /api/orders/:id"}
    /\ resp'.status \notin {401, 403}

C8_Resolves(route, id) ==
    CASE route = "DELETE /api/users/:id" -> \E u \in users : <<u.id>> = id
      [] route = "DELETE /api/products/:id" -> \E d \in products : <<d.id>> = id
      [] route = "DELETE /api/orders/:id" -> \E o \in orders : <<o.id>> = id

C8_StoresUnchanged ==
    users' = users /\ products' = products /\ orders' = orders

C8_RemovedOnly(route, id) ==
    /\ users' = IF route = "DELETE /api/users/:id"
                THEN {u \in users : <<u.id>> # id} ELSE users
    /\ products' = IF route = "DELETE /api/products/:id"
                   THEN {d \in products : <<d.id>> # id} ELSE products
    /\ orders' = IF route = "DELETE /api/orders/:id"
                 THEN {o \in orders : <<o.id>> # id} ELSE orders
    /\ Cardinality(users') + Cardinality(products') + Cardinality(orders') + 1
         = Cardinality(users) + Cardinality(products) + Cardinality(orders)

----------------------------------------------------------------------------
(* C9: an order update overwrites exactly the fields among quantity and   *)
(* status that the request supplies, a quantity of 0 included, and leaves *)
(* the other at its prior value; every stored status is one of pending,   *)
(* completed, canceled, and an update that supplies any other status is   *)
(* answered 400 with the stored order unchanged.                          *)
C9_SaveStep(s) ==
    /\ reqs[s].route = "updateOrder" /\ reqs[s].pc = "save"
    /\ reqs'[s] = Idle

C9_Stated(o, new, r) ==
    /\ new.quantity = IF r.quantity # Absent
                      THEN ToNumber(r.quantity) ELSE o.quantity
    /\ new.status = IF r.newStatus # Undefined THEN r.newStatus ELSE o.status

C9_Original ==
    [][/\ \A o \in orders : o.status \in StatusEnum
       /\ \A s \in Slots : C9_SaveStep(s) =>
            LET r == reqs[s]
            IN  /\ (r.newStatus # Undefined /\ r.newStatus \notin StatusEnum)
                      => resp'.status = 400 /\ orders' = orders
                /\ resp'.status = 200 =>
                      \A o \in orders, new \in orders' :
                          (<<o.id>> = r.id /\ new.id = o.id)
                              => C9_Stated(o, new, r)]_vars

----------------------------------------------------------------------------
(* C10: a user or product update that is answered with an error status    *)
(* has deleted no image file: the old image is never unlinked by an       *)
(* update whose save did not succeed, so the record's image reference     *)
(* still names a file on disk.                                            *)
C10_Original ==
    (/\ resp.route \in {"PUT /api/users/:_id", "PUT /api/products/:_id"}
     /\ resp.status # 200)
        => /\ resp.unlinked = Null
           /\ \A u \in users :
                (resp.route = "PUT /api/users/:_id" /\ <<u.id>> = resp.id)
                    => \A i \in DOMAIN u.profileImage : u.profileImage[i] \in files
           /\ \A d \in products :
                (resp.route = "PUT /api/products/:_id" /\ <<d.id>> = resp.id)
                    => \A i \in DOMAIN d.image : d.image[i] \in files

====
